---- MODULE Spec2Model ----
(***************************************************************************)
(* Model of src/lambda.py: the patients/notes request handler in front of  *)
(* one DynamoDB table.  One invocation of lambda_handler is one or two     *)
(* steps: every store call (get_item, put_item, update_item, delete_item)  *)
(* is atomic, and the two handlers that read and then write (update_note,  *)
(* delete_note) are split between their get_item and their update_item, so *)
(* concurrent invocations interleave exactly at the store calls.           *)
(*                                                                         *)
(* Strings are sequences of symbols (one-character strings where the code  *)
(* looks at characters, one symbol for an opaque text such as a message).  *)
(* A JSON / Python / DynamoDB value is a record [k, v, l, m]: its kind, its *)
(* text (scalars), its elements (lists) and its members (maps).            *)
(***************************************************************************)
EXTENDS Integers, Sequences, FiniteSets, TLC

VARIABLES store, pc, local, uuids, last

vars == <<store, pc, local, uuids, last>>

(* ------------------------------ bounds -------------------------------- *)

\* Concurrent invocations of the handler.
NumProcs == 2
\* Longest notes list add_note is let to build: where invocations run one
\* at a time over two patients, and in the specifications about notes.
MaxNotesSeq == 1
MaxNotes == 2
\* Identifiers uuid.uuid4() hands out during a run.
MaxUuid == 1

Procs == 1..NumProcs

(* ------------------------------ values -------------------------------- *)

NoMembers == <<>>

S(s) == [k |-> "str", v |-> s, l |-> <<>>, m |-> NoMembers]
JInt(s) == [k |-> "int", v |-> s, l |-> <<>>, m |-> NoMembers]
JFloat(s) == [k |-> "float", v |-> s, l |-> <<>>, m |-> NoMembers]
Dec(s) == [k |-> "dec", v |-> s, l |-> <<>>, m |-> NoMembers]
Null == [k |-> "null", v |-> <<>>, l |-> <<>>, m |-> NoMembers]
L(elems) == [k |-> "list", v |-> <<>>, l |-> elems, m |-> NoMembers]
M(members) == [k |-> "map", v |-> <<>>, l |-> <<>>, m |-> members]

\* d[key] = val, as on a Python dict.
SetKey(d, key, val) == [x \in (DOMAIN d) \cup {key} |-> IF x = key THEN val ELSE d[x]]

\* del d[key].
DelKey(d, key) == [x \in (DOMAIN d) \ {key} |-> d[x]]

(* --------------------------- conversions ------------------------------ *)

HexDigits == <<"0", "1", "2", "3", "4", "5", "6", "7", "8", "9",
               "a", "b", "c", "d", "e", "f">>
HexUpper == <<"0", "1", "2", "3", "4", "5", "6", "7", "8", "9",
              "A", "B", "C", "D", "E", "F">>

IsHex(c) == \E i \in DOMAIN HexDigits : HexDigits[i] = c \/ HexUpper[i] = c

HexVal(c) == (CHOOSE i \in DOMAIN HexDigits : HexDigits[i] = c \/ HexUpper[i] = c) - 1

\* The character of a code point, for the code points the modelled alphabet
\* can spell; any other decodes to a symbol outside the alphabet.
Chr(n) ==
    CASE n = 35 -> "#"
      [] n = 37 -> "%"
      [] n = 110 -> "n"
      [] n = 112 -> "p"
      [] n = 113 -> "q"
      [] OTHER -> "?"

\* urllib.parse.unquote: one left-to-right pass; "%" followed by two hex
\* digits becomes the character of that code, any other "%" stays literal,
\* and decoded output is never decoded again.
RECURSIVE unquote(_)
unquote(s) ==
    IF s = <<>> THEN <<>>
    ELSE IF s[1] = "%" /\ Len(s) >= 3 /\ IsHex(s[2]) /\ IsHex(s[3])
         THEN <<Chr(16 * HexVal(s[2]) + HexVal(s[3]))>> \o unquote(SubSeq(s, 4, Len(s)))
         ELSE <<s[1]>> \o unquote(Tail(s))

\* boto3's TypeSerializer refuses Python floats (TypeError) anywhere in a value.
RECURSIVE HasFloat(_)
HasFloat(x) ==
    \/ x.k = "float"
    \/ \E i \in DOMAIN x.l : HasFloat(x.l[i])
    \/ \E key \in DOMAIN x.m : HasFloat(x.m[key])

\* json.dumps refuses decimal.Decimal (TypeError) anywhere in a value.
RECURSIVE HasDecimal(_)
HasDecimal(x) ==
    \/ x.k = "dec"
    \/ \E i \in DOMAIN x.l : HasDecimal(x.l[i])
    \/ \E key \in DOMAIN x.m : HasDecimal(x.m[key])

\* A Python value as the table holds it and hands it back: TypeSerializer
\* writes int and Decimal as a DynamoDB number, TypeDeserializer reads every
\* number as decimal.Decimal; strings, null, lists and maps keep their shape.
RECURSIVE Stored(_)
Stored(x) ==
    CASE x.k = "int" -> Dec(x.v)
      [] x.k = "list" -> L([i \in DOMAIN x.l |-> Stored(x.l[i])])
      [] x.k = "map" -> M([key \in DOMAIN x.m |-> Stored(x.m[key])])
      [] OTHER -> x

StoredItem(item) == [a \in DOMAIN item |-> Stored(item[a])]

(* ---------------------------- responses ------------------------------- *)

CorsHeaders ==
    [allowOrigin |-> "*",
     allowMethods |-> "GET,POST,PUT,DELETE,OPTIONS",
     allowHeaders |-> "Content-Type,Authorization"]

\* response_with_cors: the body is the JSON text of the value, which keeps
\* the value's shape (json.dumps is one-to-one on values it accepts).
response_with_cors(status_code, body) ==
    [statusCode |-> status_code, headers |-> CorsHeaders, body |-> body]

Msg(text) == S(<<text>>)

\* What running a handler comes to: a returned (status, body) pair or a
\* raised exception, with the table as the handler leaves it.
Return(status, body, st) == [kind |-> "return", status |-> status, body |-> body, st |-> st]
Raise(kind, text, st) == [kind |-> kind, status |-> 0, body |-> Msg(text), st |-> st]

\* The tail of every handler plus lambda_handler's two except clauses:
\* json.dumps inside response_with_cors raises TypeError on a Decimal, after
\* the handler's store calls have been made.
Respond(out) ==
    CASE out.kind = "ClientError" ->
           response_with_cors(500, Msg("Error: " \o out.body.v[1]))
      [] out.kind = "Exception" ->
           response_with_cors(500, Msg("Unexpected error: " \o out.body.v[1]))
      [] OTHER ->
           IF HasDecimal(out.body)
           THEN response_with_cors(500,
                    Msg("Unexpected error: Object of type Decimal is not JSON serializable"))
           ELSE response_with_cors(out.status, out.body)

(* ----------------------------- routing -------------------------------- *)

UNKNOWN == <<"UNKNOWN">>

\* dict.get(key, default)
EventGet(event, key, default) == IF key \in DOMAIN event THEN event[key] ELSE default

\* A dispatcher that answers 400 only when the resource and the method are
\* both missing: the fault the dispatch claim has to tell from Route.
RouteBothMissing(event) ==
    LET resource == EventGet(event, "resource", UNKNOWN)
        method == EventGet(event, "httpMethod", UNKNOWN)
    IN  IF resource = UNKNOWN /\ method = UNKNOWN THEN "400"
        ELSE IF resource = <<"/patients">> /\ method = <<"POST">> THEN "create_patient"
        ELSE IF resource = <<"/patients/{id}">> /\ method = <<"GET">> THEN "get_patient"
        ELSE IF resource = <<"/patients/{id}">> /\ method = <<"PUT">> THEN "update_patient"
        ELSE IF resource = <<"/patients/{id}">> /\ method = <<"DELETE">> THEN "delete_patient"
        ELSE IF resource = <<"/patients/{id}/notes">> /\ method = <<"POST">>
             THEN "add_note_to_patient"
        ELSE IF resource = <<"/patients/{id}/notes">> /\ method = <<"GET">>
             THEN "get_all_notes_for_patient"
        ELSE IF resource = <<"/patients/{id}/notes/{noteId}">> /\ method = <<"GET">>
             THEN "get_note"
        ELSE IF resource = <<"/patients/{id}/notes/{noteId}">> /\ method = <<"PUT">>
             THEN "update_note"
        ELSE IF resource = <<"/patients/{id}/notes/{noteId}">> /\ method = <<"DELETE">>
             THEN "delete_note"
        ELSE "405"

\* The if / elif chain of lambda_handler: the handler an event selects, or
\* the status the dispatcher answers by itself.
Route(event) ==
    LET resource == EventGet(event, "resource", UNKNOWN)
        method == EventGet(event, "httpMethod", UNKNOWN)
    IN  IF resource = UNKNOWN \/ method = UNKNOWN THEN "400"
        ELSE IF resource = <<"/patients">> /\ method = <<"POST">> THEN "create_patient"
        ELSE IF resource = <<"/patients/{id}">> /\ method = <<"GET">> THEN "get_patient"
        ELSE IF resource = <<"/patients/{id}">> /\ method = <<"PUT">> THEN "update_patient"
        ELSE IF resource = <<"/patients/{id}">> /\ method = <<"DELETE">> THEN "delete_patient"
        ELSE IF resource = <<"/patients/{id}/notes">> /\ method = <<"POST">>
             THEN "add_note_to_patient"
        ELSE IF resource = <<"/patients/{id}/notes">> /\ method = <<"GET">>
             THEN "get_all_notes_for_patient"
        ELSE IF resource = <<"/patients/{id}/notes/{noteId}">> /\ method = <<"GET">>
             THEN "get_note"
        ELSE IF resource = <<"/patients/{id}/notes/{noteId}">> /\ method = <<"PUT">>
             THEN "update_note"
        ELSE IF resource = <<"/patients/{id}/notes/{noteId}">> /\ method = <<"DELETE">>
             THEN "delete_note"
        ELSE "405"

(* --------------------------- the table -------------------------------- *)

\* The table is a map from the id of the key (id, 'Patient') to the item.
NoItem == <<>>

\* table.get_item: the item, or no 'Item' in the response.
get_item(st, id) == IF id \in DOMAIN st THEN st[id] ELSE NoItem

\* The key schema the handlers' Key={'id': <str>, 'type': 'Patient'} fits: a
\* non-empty string id.
ValidKey(v) == v.k = "str" /\ v.v # <<>>

\* table.put_item(Item=item): full overwrite.  err: "" when the call succeeds.
put_item(st, item) ==
    IF \E a \in DOMAIN item : HasFloat(item[a])
    THEN [err |-> "Exception", text |-> "Float types are not supported", st |-> st]
    ELSE IF ~ValidKey(item["id"])
    THEN [err |-> "ClientError", text |-> "ValidationException", st |-> st]
    ELSE [err |-> "", text |-> "", st |-> SetKey(st, item["id"].v, StoredItem(item))]

\* table.delete_item: no existence check, no error on a missing key.
delete_item(st, id) == DelKey(st, id)

\* Attribute names an UpdateExpression cannot spell without a placeholder.
ReservedWords == {"name", "type"}
KeyAttributes == {"id", "type"}

\* table.update_item with "SET a = :a, ..." over the members of `sets`, then
\* `extra` (a one-member map) last.  DynamoDB edits the item, or adds a new
\* item holding the key when there is none.  attrs: the item afterwards
\* (ReturnValues="ALL_NEW").
update_item_set(st, id, sets, extra) ==
    LET names == (DOMAIN sets) \cup (DOMAIN extra)
        old == IF id \in DOMAIN st THEN st[id]
               ELSE [a \in KeyAttributes |-> IF a = "id" THEN S(id) ELSE S(<<"Patient">>)]
        new == [a \in (DOMAIN old) \cup names |->
                  IF a \in DOMAIN extra THEN Stored(extra[a])
                  ELSE IF a \in DOMAIN sets THEN Stored(sets[a])
                  ELSE old[a]]
    IN  IF \E a \in DOMAIN sets : HasFloat(sets[a])
        THEN [err |-> "Exception", text |-> "Float types are not supported",
              st |-> st, attrs |-> NoItem]
        ELSE IF \/ names \cap ReservedWords # {}
                \/ names \cap KeyAttributes # {}
                \/ (DOMAIN sets) \cap (DOMAIN extra) # {}
        THEN [err |-> "ClientError", text |-> "ValidationException",
              st |-> st, attrs |-> NoItem]
        ELSE [err |-> "", text |-> "", st |-> SetKey(st, id, new), attrs |-> new]

\* table.update_item with
\* "SET notes = list_append(if_not_exists(notes, :empty_list), :note)".
update_item_append(st, id, note) ==
    LET old == IF id \in DOMAIN st THEN st[id]
               ELSE [a \in KeyAttributes |-> IF a = "id" THEN S(id) ELSE S(<<"Patient">>)]
        before == IF "notes" \in DOMAIN old THEN old["notes"] ELSE L(<<>>)
        new == SetKey(old, "notes", L(Append(before.l, Stored(note))))
    IN  IF HasFloat(note)
        THEN [err |-> "Exception", text |-> "Float types are not supported",
              st |-> st, attrs |-> NoItem]
        ELSE IF before.k # "list"
        THEN [err |-> "ClientError", text |-> "ValidationException",
              st |-> st, attrs |-> NoItem]
        ELSE [err |-> "", text |-> "", st |-> SetKey(st, id, new), attrs |-> new]

(* ---------------------------- handlers -------------------------------- *)

PatientFields ==
    {"id", "name", "email", "dateOfBirth", "bloodType", "allergies",
     "medicalHistory", "emergencyContacts", "currentMedications"}

PatientId(event) == unquote(event["pathParameters"]["id"])
NoteId(event) == unquote(event["pathParameters"]["noteId"])

\* json.loads(event['body']): the members of the JSON object.
Body(event) == event["body"].m

\* A create_patient that leaves 'notes' out of the row: the fault the
\* list-notes-after-create claim has to tell from create_patient.
create_patient_without_notes(st, event, t1, t2) ==
    LET body == Body(event)
    IN  IF ~(PatientFields \subseteq DOMAIN body)
        THEN Raise("Exception", "KeyError", st)
        ELSE LET patient ==
                     [a \in PatientFields \cup {"type", "createdAt", "updatedAt"} |->
                        CASE a = "type" -> S(<<"Patient">>)
                          [] a = "createdAt" -> S(t1)
                          [] a = "updatedAt" -> S(t2)
                          [] OTHER -> body[a]]
                 put == put_item(st, patient)
             IN  IF put.err # "" THEN Raise(put.err, put.text, st)
                 ELSE Return(201, M(patient), put.st)

create_patient(st, event, t1, t2) ==
    LET body == Body(event)
    IN  IF ~(PatientFields \subseteq DOMAIN body)
        THEN Raise("Exception", "KeyError", st)
        ELSE LET patient ==
                     [a \in PatientFields \cup {"type", "createdAt", "updatedAt", "notes"} |->
                        CASE a = "type" -> S(<<"Patient">>)
                          [] a = "createdAt" -> S(t1)
                          [] a = "updatedAt" -> S(t2)
                          [] a = "notes" -> L(<<>>)
                          [] OTHER -> body[a]]
                 put == put_item(st, patient)
             IN  IF put.err # "" THEN Raise(put.err, put.text, st)
                 ELSE Return(201, M(patient), put.st)

get_patient(st, event) ==
    LET item == get_item(st, PatientId(event))
    IN  IF item # NoItem THEN Return(200, M(item), st)
        ELSE Return(404, Msg("Patient not found"), st)

update_patient(st, event, t) ==
    LET upd == update_item_set(st, PatientId(event), Body(event),
                               [a \in {"updatedAt"} |-> S(t)])
    IN  IF upd.err # "" THEN Raise(upd.err, upd.text, st)
        ELSE Return(200, M(upd.attrs), upd.st)

\* A delete_patient with an existence check: the fault the idempotence
\* claim has to tell from delete_patient.
delete_patient_if_exists(st, event) ==
    IF get_item(st, PatientId(event)) = NoItem
    THEN Return(404, Msg("Patient not found"), st)
    ELSE Return(204, Null, delete_item(st, PatientId(event)))

delete_patient(st, event) ==
    Return(204, Null, delete_item(st, PatientId(event)))

\* The note add_note_to_patient builds; fresh is the text of uuid.uuid4().
NewNote(event, fresh, t1, t2) ==
    LET body == Body(event)
        content == body["content"]
    IN  [a \in {"id", "patientId", "author", "createdAt", "updatedAt", "type", "content"} |->
           CASE a = "id" -> IF "id" \in DOMAIN body THEN body["id"]
                            ELSE S(<<"N", "o", "t", "e", "#">> \o fresh)
             [] a = "patientId" -> S(PatientId(event))
             [] a = "author" -> body["author"]
             [] a = "createdAt" -> S(t1)
             [] a = "updatedAt" -> S(t2)
             [] a = "type" -> S(<<"Note">>)
             [] OTHER -> IF content.k = "str" THEN L(<<content>>) ELSE content]

add_note_to_patient(st, event, fresh, t1, t2) ==
    LET body == Body(event)
    IN  IF "author" \notin DOMAIN body \/ "content" \notin DOMAIN body
        THEN Return(400, Msg("Missing required fields: author and content are required."), st)
        ELSE LET upd == update_item_append(st, PatientId(event),
                                           M(NewNote(event, fresh, t1, t2)))
             IN  IF upd.err = "ClientError"
                 THEN Return(500, Msg("Error adding note: " \o upd.text), st)
                 ELSE IF upd.err # "" THEN Raise(upd.err, upd.text, st)
                 ELSE Return(201, M(upd.attrs), upd.st)

HasNotes(item) == item # NoItem /\ "notes" \in DOMAIN item

get_all_notes_for_patient(st, event) ==
    LET item == get_item(st, PatientId(event))
    IN  IF HasNotes(item) THEN Return(200, item["notes"], st)
        ELSE Return(404, Msg("No notes found for this patient"), st)

\* What `for note in notes` walks over: the elements of a list, the
\* characters of a string; anything else is not iterable.
Iterable(nv) == nv.k \in {"list", "str"}
Elements(nv) == IF nv.k = "list" THEN nv.l ELSE [i \in DOMAIN nv.v |-> S(<<nv.v[i]>>)]

\* note['id'] works on a dict that has the key.
HasId(x) == x.k = "map" /\ "id" \in DOMAIN x.m

\* next(i for i, note in enumerate(notes) if note['id'] == note_id): the
\* first matching position, 0 for None, -1 when evaluating it raises (the
\* generator stops at the first match, so later elements are never read).
RECURSIVE FirstIndexFrom(_, _, _)
FirstIndexFrom(elems, note_id, i) ==
    IF i > Len(elems) THEN 0
    ELSE IF ~HasId(elems[i]) THEN -1
    ELSE IF elems[i].m["id"] = S(note_id) THEN i
    ELSE FirstIndexFrom(elems, note_id, i + 1)

FirstIndex(nv, note_id) ==
    IF ~Iterable(nv) THEN -1 ELSE FirstIndexFrom(Elements(nv), note_id, 1)

get_note(st, event) ==
    LET item == get_item(st, PatientId(event))
        idx == FirstIndex(item["notes"], NoteId(event))
    IN  IF ~HasNotes(item) THEN Return(404, Msg("Note not found"), st)
        ELSE IF idx = -1 THEN Raise("Exception", "TypeError", st)
        ELSE IF idx = 0 THEN Return(404, Msg("Note not found"), st)
        ELSE Return(200, Elements(item["notes"])[idx], st)

\* update_note between its get_item and its update_item: the list it read
\* with the body merged into the located note and updatedAt forced last.
MergedNotes(nv, idx, body, t) ==
    LET old == nv.l[idx].m
        merged == [a \in (DOMAIN old) \cup (DOMAIN body) \cup {"updatedAt"} |->
                     IF a = "updatedAt" THEN S(t)
                     ELSE IF a \in DOMAIN body THEN body[a]
                     ELSE old[a]]
    IN  L([i \in DOMAIN nv.l |-> IF i = idx THEN M(merged) ELSE nv.l[i]])

\* update_note up to its first return or its update_item call ("go on").
update_note_read(st, event) ==
    LET item == get_item(st, PatientId(event))
        idx == FirstIndex(item["notes"], NoteId(event))
    IN  IF ~HasNotes(item) THEN Return(404, Msg("Note not found"), st)
        ELSE IF idx = -1 THEN Raise("Exception", "TypeError", st)
        ELSE IF idx = 0 THEN Return(404, Msg("Note not found"), st)
        ELSE [kind |-> "go on", status |-> 0, body |-> Null, st |-> st]

\* update_note from its update_item call on; item is what get_item returned.
update_note_write(st, event, item, t) ==
    LET idx == FirstIndex(item["notes"], NoteId(event))
        notes == MergedNotes(item["notes"], idx, Body(event), t)
        upd == update_item_set(st, PatientId(event), [a \in {"notes"} |-> notes], <<>>)
    IN  IF upd.err # "" THEN Raise(upd.err, upd.text, st)
        ELSE Return(200, M(upd.attrs), upd.st)

\* [note for note in notes if note['id'] != note_id] reads every element.
AllHaveId(nv) == Iterable(nv) /\ \A i \in DOMAIN Elements(nv) : HasId(Elements(nv)[i])

\* A filter that drops the first note of the id only: the fault the
\* delete-note claim has to tell from FilteredNotes.
FilteredFirstOnly(nv, note_id) ==
    LET notes == Elements(nv)
        hits == {i \in DOMAIN notes : notes[i].m["id"] = S(note_id)}
    IN  IF hits = {} THEN L(notes)
        ELSE LET first == CHOOSE i \in hits : \A j \in hits : i <= j
             IN  L(SubSeq(notes, 1, first - 1) \o SubSeq(notes, first + 1, Len(notes)))

FilteredNotes(nv, note_id) ==
    L(SelectSeq(Elements(nv), LAMBDA note : note.m["id"] # S(note_id)))

delete_note_read(st, event) ==
    LET item == get_item(st, PatientId(event))
    IN  IF ~HasNotes(item) THEN Return(404, Msg("Note not found"), st)
        ELSE IF ~AllHaveId(item["notes"]) THEN Raise("Exception", "TypeError", st)
        ELSE [kind |-> "go on", status |-> 0, body |-> Null, st |-> st]

\* A delete_note whose write starts from the notes the row holds at the
\* time of the write, as a transactional read-modify-write would: what
\* the lost-update claim has to tell from delete_note_write.
delete_note_write_current(st, event, item) ==
    LET now == get_item(st, PatientId(event))
        from == IF HasNotes(now) /\ AllHaveId(now["notes"]) THEN now ELSE item
        new_notes == FilteredNotes(from["notes"], NoteId(event))
        upd == update_item_set(st, PatientId(event), [a \in {"notes"} |-> new_notes], <<>>)
    IN  IF upd.err # "" THEN Raise(upd.err, upd.text, st)
        ELSE Return(204, Null, upd.st)

delete_note_write(st, event, item) ==
    LET new_notes == FilteredNotes(item["notes"], NoteId(event))
        upd == update_item_set(st, PatientId(event), [a \in {"notes"} |-> new_notes], <<>>)
    IN  IF upd.err # "" THEN Raise(upd.err, upd.text, st)
        ELSE Return(204, Null, upd.st)

(* --------------------------- state machine ---------------------------- *)

\* store: the table.  pc[p], local[p]: where invocation p stands and what it
\* holds between its store calls.  uuids: how many uuid4 values were used.
\* last: the most recently completed invocation: the handler that ran (op),
\* the routing part of its event (route), the patient id it addressed, its
\* and the note id it addressed, its response, what completed just before it
\* on the same patient id (after: "create" for a create-patient answered 201,
\* "delete" / "delete2" for one / at least two delete-patient in a row, else
\* "other"), and whether its write discarded a concurrent change (lost).

Idle == [ev |-> <<>>, item |-> NoItem]

Init ==
    /\ store = <<>>
    /\ pc = [p \in Procs |-> "idle"]
    /\ local = [p \in Procs |-> Idle]
    /\ uuids = 0
    /\ last = [op |-> "none", route |-> <<>>, id |-> <<>>, nid |-> <<>>, status |-> 0,
               body |-> Null, after |-> "other", lost |-> FALSE]

RoutePart(event) == [a \in (DOMAIN event) \cap {"resource", "httpMethod"} |-> event[a]]

After(id) ==
    IF last.id # id THEN "other"
    ELSE IF last.op = "create_patient" /\ last.status = 201 THEN "create"
    ELSE IF last.op = "delete_patient" /\ last.after \in {"delete", "delete2"} THEN "delete2"
    ELSE IF last.op = "delete_patient" THEN "delete"
    ELSE "other"

NoteIdPart(event) ==
    IF "pathParameters" \in DOMAIN event /\ "noteId" \in DOMAIN event["pathParameters"]
    THEN unquote(event["pathParameters"]["noteId"])
    ELSE <<>>

\* Invocation p answers: the handler's outcome goes through Respond, the
\* table is as the handler left it.
Answer(p, op, event, id, out, lost) ==
    LET resp == Respond(out)
    IN  /\ store' = out.st
        /\ pc' = [pc EXCEPT ![p] = "idle"]
        /\ local' = [local EXCEPT ![p] = Idle]
        /\ last' = [op |-> op, route |-> RoutePart(event), id |-> id,
                    nid |-> NoteIdPart(event), status |-> resp.statusCode,
                    body |-> resp.body, after |-> After(id), lost |-> lost]

Complete(p, op, event, id, out) == Answer(p, op, event, id, out, FALSE)

\* A read-then-write invocation of p is about to write over a change that a
\* successful update_note / delete_note made to the same patient's notes
\* after p read them.
Overtaken(p) ==
    LET id == PatientId(local[p].ev)
        now == get_item(store, id)
    IN  /\ last.op \in {"update_note", "delete_note"}
        /\ last.status \in {200, 204}
        /\ last.id = id
        /\ HasNotes(now)
        /\ now["notes"] # local[p].item["notes"]

BadRequest(p, event) ==
    /\ pc[p] = "idle"
    /\ Route(event) = "400"
    /\ Complete(p, "400", event, <<>>,
                Return(400, Msg("Invalid request. Resource or method not found."), store))
    /\ UNCHANGED uuids

MethodNotAllowed(p, event) ==
    /\ pc[p] = "idle"
    /\ Route(event) = "405"
    /\ Complete(p, "405", event, <<>>, Return(405, Msg("Method Not Allowed"), store))
    /\ UNCHANGED uuids

\* body['id'] of a create request, the empty text when the body has none.
BodyId(event) == IF "id" \in DOMAIN Body(event) THEN Body(event)["id"].v ELSE <<>>

CreatePatient(p, event, t1, t2) ==
    /\ pc[p] = "idle"
    /\ Route(event) = "create_patient"
    /\ Complete(p, "create_patient", event, BodyId(event),
                create_patient(store, event, t1, t2))
    /\ UNCHANGED uuids

GetPatient(p, event) ==
    /\ pc[p] = "idle"
    /\ Route(event) = "get_patient"
    /\ Complete(p, "get_patient", event, PatientId(event), get_patient(store, event))
    /\ UNCHANGED uuids

UpdatePatient(p, event, t) ==
    /\ pc[p] = "idle"
    /\ Route(event) = "update_patient"
    /\ Complete(p, "update_patient", event, PatientId(event), update_patient(store, event, t))
    /\ UNCHANGED uuids

DeletePatient(p, event) ==
    /\ pc[p] = "idle"
    /\ Route(event) = "delete_patient"
    /\ Complete(p, "delete_patient", event, PatientId(event), delete_patient(store, event))
    /\ UNCHANGED uuids

\* The notes list of an item, empty when it has none.
NotesOf(item) ==
    IF HasNotes(item) /\ item["notes"].k = "list" THEN item["notes"].l ELSE <<>>

AddNote(p, event, t1, t2, cap) ==
    /\ pc[p] = "idle"
    /\ Route(event) = "add_note_to_patient"
    /\ Len(NotesOf(get_item(store, PatientId(event)))) < cap
    /\ IF "id" \in DOMAIN Body(event)
       THEN UNCHANGED uuids
       ELSE uuids < MaxUuid /\ uuids' = uuids + 1
    /\ Complete(p, "add_note_to_patient", event, PatientId(event),
                add_note_to_patient(store, event, <<ToString(uuids + 1)>>, t1, t2))

ListNotes(p, event) ==
    /\ pc[p] = "idle"
    /\ Route(event) = "get_all_notes_for_patient"
    /\ Complete(p, "get_all_notes_for_patient", event, PatientId(event),
                get_all_notes_for_patient(store, event))
    /\ UNCHANGED uuids

GetNote(p, event) ==
    /\ pc[p] = "idle"
    /\ Route(event) = "get_note"
    /\ Complete(p, "get_note", event, PatientId(event), get_note(store, event))
    /\ UNCHANGED uuids

\* update_note, first store call: get_item, then 404 / an exception, or on
\* to the write with the item it read.
UpdateNoteRead(p, event) ==
    /\ pc[p] = "idle"
    /\ Route(event) = "update_note"
    /\ LET out == update_note_read(store, event)
       IN  IF out.kind = "go on"
           THEN /\ pc' = [pc EXCEPT ![p] = "update_note"]
                /\ local' = [local EXCEPT ![p] =
                                [ev |-> event, item |-> get_item(store, PatientId(event))]]
                /\ UNCHANGED <<store, last>>
           ELSE Complete(p, "update_note", event, PatientId(event), out)
    /\ UNCHANGED uuids

\* update_note, second store call: the whole list it read, merged, is written.
UpdateNoteWrite(p, t) ==
    /\ pc[p] = "update_note"
    /\ LET id == PatientId(local[p].ev)
           out == update_note_write(store, local[p].ev, local[p].item, t)
           fresh == update_note_write(store, local[p].ev, get_item(store, id), t)
       IN  Answer(p, "update_note", local[p].ev, id, out,
                  /\ Overtaken(p)
                  /\ Respond(out).statusCode = 200
                  /\ \/ update_note_read(store, local[p].ev).kind # "go on"
                     \/ fresh.st # out.st)
    /\ UNCHANGED uuids

DeleteNoteRead(p, event) ==
    /\ pc[p] = "idle"
    /\ Route(event) = "delete_note"
    /\ LET out == delete_note_read(store, event)
       IN  IF out.kind = "go on"
           THEN /\ pc' = [pc EXCEPT ![p] = "delete_note"]
                /\ local' = [local EXCEPT ![p] =
                                [ev |-> event, item |-> get_item(store, PatientId(event))]]
                /\ UNCHANGED <<store, last>>
           ELSE Complete(p, "delete_note", event, PatientId(event), out)
    /\ UNCHANGED uuids

DeleteNoteWrite(p) ==
    /\ pc[p] = "delete_note"
    /\ LET id == PatientId(local[p].ev)
           out == delete_note_write(store, local[p].ev, local[p].item)
           fresh == delete_note_write(store, local[p].ev, get_item(store, id))
       IN  Answer(p, "delete_note", local[p].ev, id, out,
                  /\ Overtaken(p)
                  /\ Respond(out).statusCode = 204
                  /\ \/ delete_note_read(store, local[p].ev).kind # "go on"
                     \/ fresh.st # out.st)
    /\ UNCHANGED uuids

\* One step of invocation p, its request drawn from E and its clock
\* readings from T.
Step(p, E, T, cap) ==
    \/ \E event \in E : BadRequest(p, event)
    \/ \E event \in E : MethodNotAllowed(p, event)
    \/ \E event \in E, t1 \in T, t2 \in T : CreatePatient(p, event, t1, t2)
    \/ \E event \in E : GetPatient(p, event)
    \/ \E event \in E, t \in T : UpdatePatient(p, event, t)
    \/ \E event \in E : DeletePatient(p, event)
    \/ \E event \in E, t1 \in T, t2 \in T : AddNote(p, event, t1, t2, cap)
    \/ \E event \in E : ListNotes(p, event)
    \/ \E event \in E : GetNote(p, event)
    \/ \E event \in E : UpdateNoteRead(p, event)
    \/ \E t \in T : UpdateNoteWrite(p, t)
    \/ \E event \in E : DeleteNoteRead(p, event)
    \/ DeleteNoteWrite(p)

(* ------------------------------ inputs -------------------------------- *)

\* datetime.now().isoformat(): wall-clock readings.
T1 == <<"t1">>
T2 == <<"t2">>

Event(resource, method, params, body) ==
    [a \in {"resource", "httpMethod", "pathParameters", "body"} |->
       CASE a = "resource" -> resource
         [] a = "httpMethod" -> method
         [] a = "pathParameters" -> params
         [] OTHER -> body]

Without(event, key) == [a \in (DOMAIN event) \ {key} |-> event[a]]

\* pathParameters as the gateway passes them: percent-encoded.
IdParams(ids) == {[a \in {"id"} |-> id] : id \in ids}
NoteParams(ids, nids) ==
    {[a \in {"id", "noteId"} |-> IF a = "id" THEN id ELSE nid] : id \in ids, nid \in nids}

\* Requests for the nine routes, from the given bodies and path parameters.
RoutedEvents(creates, ids, patches, noteIds, notes, nids, notePatches) ==
    {Event(<<"/patients">>, <<"POST">>, <<>>, b) : b \in creates}
    \cup {Event(<<"/patients/{id}">>, m, pp, Null) :
            m \in {<<"GET">>, <<"DELETE">>}, pp \in IdParams(ids)}
    \cup {Event(<<"/patients/{id}">>, <<"PUT">>, pp, b) : pp \in IdParams(ids), b \in patches}
    \cup {Event(<<"/patients/{id}/notes">>, <<"POST">>, pp, b) :
            pp \in IdParams(noteIds), b \in notes}
    \cup {Event(<<"/patients/{id}/notes">>, <<"GET">>, pp, Null) : pp \in IdParams(ids)}
    \cup {Event(<<"/patients/{id}/notes/{noteId}">>, m, pp, Null) :
            m \in {<<"GET">>, <<"DELETE">>}, pp \in NoteParams(noteIds, nids)}
    \cup {Event(<<"/patients/{id}/notes/{noteId}">>, <<"PUT">>, pp, b) :
            pp \in NoteParams(noteIds, nids), b \in notePatches}

\* POST /patients bodies: every field present (texts and empty lists, the
\* emergency contacts as given), or one field left out.
PatientBody(id, contacts) ==
    M([a \in PatientFields |->
         CASE a = "id" -> S(id)
           [] a = "name" -> S(<<"A">>)
           [] a = "email" -> S(<<"a@a.com">>)
           [] a = "dateOfBirth" -> S(<<"2000-01-01">>)
           [] a = "bloodType" -> S(<<"O+">>)
           [] a = "emergencyContacts" -> contacts
           [] OTHER -> L(<<>>)])

Contact(phone) == L(<<M([a \in {"phone"} |-> phone])>>)

Lacking(body, key) == M(DelKey(body.m, key))

\* POST /patients/{id}/notes bodies.
NoteBody(keys, id, author, content) ==
    M([a \in keys |->
         CASE a = "id" -> id
           [] a = "author" -> author
           [] OTHER -> content])

\* A well-formed note, for bodies that overwrite notes wholesale.
PlainNote(id) == NoteBody({"id", "author", "content"}, S(id), S(<<"Dr.Who">>),
                          L(<<S(<<"stable">>)>>))

N1 == <<"n", "1">>
N2 == <<"n", "2">>
N3 == <<"n", "3">>

\* Requests outside the table: a missing resource or method, a pair that is
\* no route, and the literal text 'UNKNOWN' in either place.
SomeParams == [a \in {"id"} |-> <<"p">>]
OtherEvents ==
    {Without(Event(<<"/patients/{id}">>, <<"GET">>, SomeParams, Null), "resource"),
     Without(Event(<<"/patients/{id}">>, <<"DELETE">>, SomeParams, Null), "httpMethod"),
     Without(Without(Event(<<"/patients/{id}">>, <<"GET">>, SomeParams, Null),
                     "resource"), "httpMethod"),
     Event(<<"/patients">>, <<"GET">>, SomeParams, Null),
     Event(<<"/patients/{id}">>, <<"POST">>, SomeParams, Null),
     Event(<<"/patients/{id}/notes">>, <<"DELETE">>, SomeParams, Null),
     Event(<<"/patients/{id}/notes/{noteId}">>, <<"PATCH">>, SomeParams, Null),
     Event(<<"/other">>, <<"GET">>, SomeParams, Null),
     Event(UNKNOWN, <<"DELETE">>, SomeParams, Null),
     Event(<<"/patients/{id}">>, UNKNOWN, SomeParams, Null)}

(* ------------------ patients and routing, one at a time ---------------- *)

\* Invocations run one after another; requests cover every route, the
\* requests outside the table, two patients (one reachable under two
\* encodings of its id) and creation payloads with and without numbers.
Events ==
    RoutedEvents(
        {PatientBody(<<"p">>, L(<<>>)),
         PatientBody(<<"p">>, Contact(JInt(<<"5">>))),
         PatientBody(<<"p">>, Contact(JFloat(<<"1.5">>))),
         PatientBody(<<"q">>, L(<<>>)),
         Lacking(PatientBody(<<"p">>, L(<<>>)), "email")},
        {<<"p">>, <<"%", "7", "0">>, <<"q">>},
        {M(<<>>),
         M([a \in {"email"} |-> S(<<"x@y.com">>)]),
         M([a \in {"name"} |-> S(<<"B">>)])},
        {<<"p">>},
        {NoteBody({"id", "author", "content"}, S(N1), S(<<"Dr.Who">>), S(<<"stable">>))},
        {N1},
        {M([a \in {"content"} |-> L(<<S(<<"better">>)>>)])})
    \cup OtherEvents

Next == Step(1, Events, {T1}, MaxNotesSeq)

Spec == Init /\ [][Next]_vars

(* ------------------- claims: patients and routing ---------------------- *)

\* The routing table of the specification, section 4.1.
RouteTable ==
    {<<<<"/patients">>, <<"POST">>, "create_patient">>,
     <<<<"/patients/{id}">>, <<"GET">>, "get_patient">>,
     <<<<"/patients/{id}">>, <<"PUT">>, "update_patient">>,
     <<<<"/patients/{id}">>, <<"DELETE">>, "delete_patient">>,
     <<<<"/patients/{id}/notes">>, <<"POST">>, "add_note_to_patient">>,
     <<<<"/patients/{id}/notes">>, <<"GET">>, "get_all_notes_for_patient">>,
     <<<<"/patients/{id}/notes/{noteId}">>, <<"GET">>, "get_note">>,
     <<<<"/patients/{id}/notes/{noteId}">>, <<"PUT">>, "update_note">>,
     <<<<"/patients/{id}/notes/{noteId}">>, <<"DELETE">>, "delete_note">>}

Lacks(route) == "resource" \notin DOMAIN route \/ "httpMethod" \notin DOMAIN route
Literal(route) == ~Lacks(route) /\ (route["resource"] = UNKNOWN \/ route["httpMethod"] = UNKNOWN)
InTable(route) ==
    ~Lacks(route) /\ \E e \in RouteTable : e[1] = route["resource"] /\ e[2] = route["httpMethod"]
Refused(done, status, text) ==
    done.op = ToString(status) /\ done.status = status /\ done.body = Msg(text)

\* What the last completed invocation shows of the dispatch; sentinel says
\* whether the literal text 'UNKNOWN' counts as a missing value.
Dispatched(done, sentinel) ==
    /\ Lacks(done.route) \/ (sentinel /\ Literal(done.route))
         => Refused(done, 400, "Invalid request. Resource or method not found.")
    /\ ~Lacks(done.route) /\ ~InTable(done.route) /\ ~(sentinel /\ Literal(done.route))
         => Refused(done, 405, "Method Not Allowed")
    /\ \A e \in RouteTable :
         ~Lacks(done.route) /\ e[1] = done.route["resource"] /\ e[2] = done.route["httpMethod"]
           => done.op = e[3]

NoStoreCall == store' = store /\ uuids' = uuids

\* C2 as stated: a request lacking the resource or the method is answered
\* 400, a request with both present whose pair is no table entry is answered
\* 405 'Method Not Allowed', in both cases with no handler run and the table
\* untouched, and every pair of the table selects its one operation.
C2_Original ==
    [][last' # last =>
         /\ Dispatched(last, FALSE)'
         /\ (last'.op \in {"400", "405"} => NoStoreCall)]_vars

\* C2 amended: the same, except that a request carrying the literal text
\* 'UNKNOWN' as its resource or its method is answered 400 like one that
\* lacks it, and 405 is for pairs with both present and neither 'UNKNOWN'.
C2_Dispatch ==
    [][last' # last =>
         /\ Dispatched(last, TRUE)'
         /\ (last'.op \in {"400", "405"} => NoStoreCall)]_vars

\* C2 witness: a request with a resource and no method was answered 400
\* while the table held rows.
C2_Witness ==
    /\ last.op = "400" /\ last.status = 400
    /\ "httpMethod" \notin DOMAIN last.route
    /\ "resource" \in DOMAIN last.route
    /\ store # <<>>

\* C1 as stated: list-notes right after the create-patient of the same id
\* answers 404 'No notes found for this patient'.
C1_Original ==
    last.op = "get_all_notes_for_patient" /\ last.after = "create"
        => last.status = 404 /\ last.body = Msg("No notes found for this patient")

\* C1 amended: list-notes right after the create-patient of the same id
\* answers 200 with the empty list (create stores notes = []).
C1_EmptyList ==
    last.op = "get_all_notes_for_patient" /\ last.after = "create"
        => last.status = 200 /\ last.body = L(<<>>)

\* C1 witness: a list-notes right after the create-patient of its id was
\* answered 200.
C1_Witness ==
    last.op = "get_all_notes_for_patient" /\ last.after = "create" /\ last.status = 200

Timestamps == {"createdAt", "updatedAt"}

SameButTimestamps(row1, row2) ==
    /\ DOMAIN row1 = DOMAIN row2
    /\ \A a \in (DOMAIN row1) \ Timestamps : row1[a] = row2[a]

\* C3 as stated: a create-patient whose body has all nine fields answers 201
\* with notes = [] and type 'Patient' (replacing any earlier row of the id),
\* and the get-patient of that id right after it answers 200 with the same row
\* up to createdAt / updatedAt.
C3_CreateThenGet ==
    [][/\ \A event \in Events :
            /\ Route(event) = "create_patient"
            /\ PatientFields \subseteq DOMAIN Body(event)
            /\ \E t1, t2 \in {T1} : CreatePatient(1, event, t1, t2)
            => /\ last'.status = 201
               /\ last'.body.m["notes"] = L(<<>>)
               /\ last'.body.m["type"] = S(<<"Patient">>)
               /\ store'[BodyId(event)]["notes"] = L(<<>>)
       /\ last.op = "create_patient" /\ last.status = 201
            /\ last'.op = "get_patient" /\ last'.id = last.id
            => /\ last'.status = 200
               /\ SameButTimestamps(last'.body.m, last.body.m)]_vars

\* C4: delete-patient is idempotent.  Every delete-patient answers 204 with a
\* null body and leaves no row of the id; one that follows a delete-patient
\* of the same id leaves the whole table as it was; and the get-patient after
\* two of them in a row answers 404 'Patient not found'.
C4_DeleteIdempotent ==
    [][last' # last =>
         /\ last'.op = "delete_patient"
              => /\ last'.status = 204 /\ last'.body = Null
                 /\ last'.id \notin DOMAIN store'
         /\ last'.op = "delete_patient" /\ last'.after \in {"delete", "delete2"}
              => store' = store
         /\ last'.op = "get_patient" /\ last'.after = "delete2"
              => last'.status = 404 /\ last'.body = Msg("Patient not found")]_vars

\* C4 witness: a get-patient after two delete-patient of its id in a row
\* was answered 404 while the table held another row.
C4_Witness ==
    /\ last.op = "get_patient" /\ last.after = "delete2"
    /\ last.status = 404
    /\ store # <<>>

\* C9 as stated: a row comes into being only by a create-patient of its id
\* answered 201 (so update-patient on an id with no row creates nothing, and
\* no note operation brings a row into existence).
C9_OnlyCreateMakesRows ==
    [][\A id \in DOMAIN store' :
          id \notin DOMAIN store
            => last'.op = "create_patient" /\ last'.id = id /\ last'.status = 201]_vars

(* --------------------- notes of one patient, in turn ------------------- *)

\* One patient; notes with ids from the caller (twice the same, a second
\* one, a numeric author) and from uuid4; note updates that change content,
\* author, id and updatedAt; notes overwritten wholesale by update-patient.
NotesEvents ==
    RoutedEvents(
        {PatientBody(<<"p">>, L(<<>>))},
        {<<"p">>},
        {M([a \in {"notes"} |-> S(<<"none">>)]),
         M([a \in {"notes"} |-> L(<<PlainNote(N1), PlainNote(N2), PlainNote(N1)>>)])},
        {<<"p">>},
        {NoteBody({"id", "author", "content"}, S(N1), S(<<"Dr.Who">>), S(<<"stable">>)),
         NoteBody({"id", "author", "content"}, S(N2), JInt(<<"5">>), S(<<"stable">>)),
         NoteBody({"author", "content"}, Null, S(<<"Dr.Who">>), S(<<"stable">>)),
         NoteBody({"author"}, Null, S(<<"Dr.Who">>), Null)},
        {N1, N2, N3},
        {M([a \in {"content"} |-> L(<<S(<<"better">>)>>)]),
         M([a \in {"author"} |-> JInt(<<"7">>)])})
    \cup {Without(Event(<<"/patients/{id}">>, <<"GET">>, SomeParams, Null), "resource"),
          Event(<<"/patients">>, <<"GET">>, SomeParams, Null)}

NextNotes == Step(1, NotesEvents, {T1}, MaxNotes)

SpecNotes == Init /\ [][NextNotes]_vars


(* ------------------- claims: notes of one patient ---------------------- *)

\* new is old without the elements whose id is note_id, in old's order.
IsFiltered(old, new, note_id) ==
    /\ \A j \in DOMAIN new : new[j].m["id"] # S(note_id)
    /\ Len(new) = Cardinality({i \in DOMAIN old : old[i].m["id"] # S(note_id)})
    /\ \E f \in [DOMAIN new -> DOMAIN old] :
         /\ \A i, j \in DOMAIN new : i < j => f[i] < f[j]
         /\ \A j \in DOMAIN new : new[j] = old[f[j]]

\* Invocation p makes the store call that ends a delete_note / update_note.
DeleteNoteStep(p) == pc[p] = "delete_note" /\ pc'[p] = "idle"
UpdateNoteStep(p) == pc[p] = "update_note" /\ pc'[p] = "idle"

\* Nothing changed the row between p's get_item and now.
Undisturbed(p) == local[p].item = get_item(store, PatientId(local[p].ev))

OthersKept(id) ==
    /\ DOMAIN store' = DOMAIN store
    /\ \A other \in (DOMAIN store) \ {id} : store'[other] = store[other]
    /\ DOMAIN store'[id] = DOMAIN store[id]
    /\ \A a \in (DOMAIN store[id]) \ {"notes"} : store'[id][a] = store[id][a]

C10_UpdateNoteFrame ==
    [][\A p \in Procs :
          /\ UpdateNoteStep(p) /\ Undisturbed(p)
             => LET id == PatientId(local[p].ev)
                    body == Body(local[p].ev)
                    old == store[id]["notes"].l
                    new == store'[id]["notes"].l
                    idx == CHOOSE i \in DOMAIN old :
                              /\ old[i].m["id"] = S(NoteId(local[p].ev))
                              /\ \A j \in 1..(i - 1) : old[j].m["id"] # S(NoteId(local[p].ev))
                IN  /\ last'.status = 200 /\ last'.body = M(store'[id])
                    /\ Len(new) = Len(old)
                    /\ \A i \in DOMAIN old : i # idx => new[i] = old[i]
                    /\ \A a \in (DOMAIN body) \ {"updatedAt"} : new[idx].m[a] = Stored(body[a])
                    /\ \E t \in {T1, T2} : new[idx].m["updatedAt"] = S(t)
                    /\ \A a \in (DOMAIN old[idx].m) \ ((DOMAIN body) \cup {"updatedAt"}) :
                          new[idx].m[a] = old[idx].m[a]
                    /\ OthersKept(id)
          /\ pc[p] = "idle" /\ pc'[p] = "idle" /\ last' # last /\ last'.op = "update_note"
             /\ \/ ~HasNotes(get_item(store, last'.id))
                \/ /\ get_item(store, last'.id)["notes"].k = "list"
                   /\ \A i \in DOMAIN NotesOf(store[last'.id]) :
                         NotesOf(store[last'.id])[i].m["id"] # S(last'.nid)
             => /\ last'.status = 404 /\ last'.body = Msg("Note not found")
                /\ store' = store]_vars

(* ------------------ concurrent invocations on one patient -------------- *)

\* Invocations of all processes interleave at their store calls.  One
\* patient; add-note with two caller-supplied ids (one with a numeric
\* author); update-note and delete-note on those ids.
RaceEvents ==
    LET p == IdParams({<<"p">>})
        n1 == NoteParams({<<"p">>}, {N1})
        n12 == NoteParams({<<"p">>}, {N1, N2})
    IN  {Event(<<"/patients">>, <<"POST">>, <<>>, PatientBody(<<"p">>, L(<<>>)))}
        \cup {Event(<<"/patients/{id}">>, m, pp, Null) :
                m \in {<<"GET">>, <<"DELETE">>}, pp \in p}
        \cup {Event(<<"/patients/{id}">>, <<"PUT">>, pp,
                    M([a \in {"name"} |-> S(<<"B">>)])) : pp \in p}
        \cup {Event(<<"/patients/{id}/notes">>, <<"POST">>, pp, b) :
                pp \in p,
                b \in {NoteBody({"id", "author", "content"}, S(N1), S(<<"Dr.Who">>),
                                S(<<"stable">>)),
                       NoteBody({"id", "author", "content"}, S(N2), JInt(<<"5">>),
                                S(<<"stable">>))}}
        \cup {Event(<<"/patients/{id}/notes">>, <<"GET">>, pp, Null) : pp \in p}
        \cup {Event(<<"/patients/{id}/notes/{noteId}">>, <<"GET">>, pp, Null) : pp \in n1}
        \cup {Event(<<"/patients/{id}/notes/{noteId}">>, <<"PUT">>, pp,
                    M([a \in {"content"} |-> L(<<S(<<"better">>)>>)])) : pp \in n1}
        \cup {Event(<<"/patients/{id}/notes/{noteId}">>, <<"DELETE">>, pp, Null) :
                pp \in n12}
        \cup {Without(Event(<<"/patients/{id}">>, <<"GET">>, SomeParams, Null), "resource"),
              Event(<<"/patients">>, <<"GET">>, SomeParams, Null)}

NextRace == \E p \in Procs : Step(p, RaceEvents, {T1}, MaxNotes)

SpecRace == Init /\ [][NextRace]_vars

(* ---------------------- claims: concurrency ---------------------------- *)

\* C6 as stated: no two notes of one patient have the same id.
C6_UniqueNoteIds ==
    \A id \in DOMAIN store :
        \A i, j \in DOMAIN NotesOf(store[id]) :
            i # j => NotesOf(store[id])[i].m["id"] # NotesOf(store[id])[j].m["id"]

\* C7: the write that ends a successful update-note / delete-note stores the
\* list computed from what the invocation itself read, whatever the row
\* holds by then: the notes read without those of the id (delete-note), the
\* notes read with only the first note of the id changed (update-note).  A
\* change made to the notes in between is not merged: it is overwritten.
C7_StaleWriteWins ==
    [][\A p \in Procs :
          LET id == PatientId(local[p].ev)
              note_id == NoteId(local[p].ev)
              read == local[p].item["notes"].l
              new == store'[id]["notes"].l
          IN  /\ DeleteNoteStep(p) /\ last'.status = 204
                 => IsFiltered(read, new, note_id)
              /\ UpdateNoteStep(p) /\ last'.status = 200
                 => /\ Len(new) = Len(read)
                    /\ \E idx \in DOMAIN read :
                         /\ read[idx].m["id"] = S(note_id)
                         /\ \A i \in DOMAIN read : i # idx => new[i] = read[i]
                         /\ \A a \in DOMAIN Body(local[p].ev) :
                               a # "updatedAt" => new[idx].m[a] = Stored(Body(local[p].ev)[a])]_vars

\* C7 witness: two of update-note / delete-note overlapped on one patient, both answered
\* 200 / 204, and the notes are not what the second would have written had it
\* read after the first one's write: the first one's change is gone.
C7_Witness ==
    /\ last.lost
    /\ last.op \in {"update_note", "delete_note"}
    /\ last.status \in {200, 204}

\* C8 as stated: on an existing patient whose notes are a list, an add-note
\* answered 201 has appended exactly its note at the tail, the notes before
\* it keeping their places, and an add-note not answered 201 has left the
\* notes as they were, so that the list grows by the number of successful
\* add-notes.
C8_AtomicAppend ==
    [][/\ last'.op = "add_note_to_patient"
       /\ last' # last \/ store' # store
       /\ last'.id \in DOMAIN store
       /\ HasNotes(store[last'.id])
       /\ store[last'.id]["notes"].k = "list"
       => LET old == store[last'.id]["notes"].l
              new == store'[last'.id]["notes"].l
          IN  /\ last'.status = 201
                 => /\ Len(new) = Len(old) + 1
                    /\ SubSeq(new, 1, Len(old)) = old
                    /\ last'.body = M(store'[last'.id])
              /\ last'.status # 201 => new = old]_vars

====
